---- MODULE Spec2Model ----
(***************************************************************************)
(* LocalRAG: the folder watcher (src/folderwatch.py), the index            *)
(* reconciler (src/vector_db.py) and the owner that wires the two          *)
(* together (src/chat.py, Chat.start_watch).                               *)
(*                                                                         *)
(* A path is a record [dir, base]: dir is the folder string and base the   *)
(* file name as a sequence of tokens, e.g. <<"~$", "a", ".txt">>, so that  *)
(* str.endswith / str.startswith / os.path.basename are computed on the    *)
(* name's structure.  A hash value is a record [kind, c]: kind "None" is   *)
(* Python's None, kind "str" the empty string, kind "hex" the SHA-256      *)
(* hex digest of content c (taken to be collision free).                   *)
(***************************************************************************)
EXTENDS Integers, Sequences, FiniteSets, TLC

\* ------------------------------------------------------------------ bounds
\* File contents are 1..MaxContent; a text file of content c splits into c chunks.
MaxContent == 2
\* Threads that may dispatch notifications to one FolderWatcher.
NThreads == 2
\* Pages of a PDF file are 0..MaxPage.
MaxPage == 1
\* Chunks in a list handed to calculate_chunk_ids.
MaxChunks == 5
\* Changes the environment makes to the watched folder in one behaviour.
MaxChanges == 2
\* Times the application is started (Chat.start_watch) in one behaviour.
MaxStarts == 2

Contents == 1..MaxContent

\* ------------------------------------------------------------------- paths
RelFolder == "./watched_folder"
AbsFolder == "/cwd/watched_folder"

\* os.path.abspath on a folder string: the working directory is prepended to a
\* relative one and the result normalised.
AbsDir(d) == IF d = RelFolder THEN AbsFolder ELSE d

\* os.path.join(root, file)
Join(d, b) == [dir |-> d, base |-> b]

\* os.path.abspath(path)
Abspath(p) == [p EXCEPT !.dir = AbsDir(p.dir)]

HashFileName == <<"file_hashes", ".csv">>

\* str.endswith(".ext") on a path or file name
EndsWithExt(b, e) == Len(b) >= 1 /\ b[Len(b)] = e

\* file_path.endswith("file_hashes.csv")
EndsWithHashFileName(b) ==
    Len(b) >= 2 /\ b[Len(b) - 1] = "file_hashes" /\ b[Len(b)] = ".csv"

\* os.path.basename(file_path).startswith("~$")
StartsWithLockPrefix(b) == Len(b) >= 1 /\ b[1] = "~$"

\* ------------------------------------------------------------ hash values
None == [kind |-> "None", c |-> 0]
EmptyStr == [kind |-> "str", c |-> 0]
HexDigest(c) == [kind |-> "hex", c |-> c]

\* Python truthiness of a hash value: None and "" are falsy.
Truthy(h) == h.kind = "hex"

\* A file on disk: absent, locked (present, but open() raises), or readable
\* with content c.
Absent == [st |-> "absent", c |-> 0]
Locked == [st |-> "locked", c |-> 0]
File(c) == [st |-> "file", c |-> c]
DiskValues == {Absent, Locked} \cup {File(c) : c \in Contents}

\* os.path.isfile / os.path.exists
IsFile(v) == v.st # "absent"

\* The file a path names, in a folder holding the files of disk.
Read(disk, p) == IF p.base \in DOMAIN disk THEN disk[p.base] ELSE Absent

\* FolderWatcher._compute_file_hash, on the disk value of the file
compute_file_hash(v) ==
    IF ~IsFile(v) THEN None
    ELSE IF v.st = "locked" THEN None   \* open()/read() raised: caught, None
    ELSE HexDigest(v.c)

\* dict.get(key): None when the key is missing
Get(d, k) == IF k \in DOMAIN d THEN d[k] ELSE None

EmptyMap == [x \in {} |-> None]

\* {**a, **b}
Merge(a, b) ==
    [k \in (DOMAIN a) \cup (DOMAIN b) |-> IF k \in DOMAIN b THEN b[k] ELSE a[k]]

\* dict without the keys of s
Without(d, s) == [k \in (DOMAIN d) \ s |-> d[k]]

\* d[k] = v
Put(d, k, v) == [x \in (DOMAIN d) \cup {k} |-> IF x = k THEN v ELSE d[x]]

\* ------------------------------------------------------- hash persistence
\* csv.writer.writerow([file_path, file_hash]): None is written as the empty
\* field, a digest as itself.
CsvField(h) == IF h.kind = "None" THEN EmptyStr ELSE h

\* file_hashes.csv: missing, or the rows (each a sequence of fields) that a
\* csv reader yields from it; raises tells that the reader raises after them
\* (the file is damaged from there on).
NoCsv == [exists |-> FALSE, rows |-> {}, raises |-> FALSE]

\* The file _save_hashes writes for a map (mode "w": the file is replaced).
save_hashes(file_hashes) ==
    [exists |-> TRUE, raises |-> FALSE,
     rows |-> {<<p, CsvField(file_hashes[p])>> : p \in DOMAIN file_hashes}]

\* _load_hashes: no file -> {}; else every row of exactly two fields, keyed by
\* the absolute path.  An exception of the reader is caught after the loop
\* has stored the rows before it, and the map is returned as it is then.
load_hashes(csv) ==
    IF ~csv.exists THEN EmptyMap
    ELSE LET rows == {r \in csv.rows : Len(r) = 2}
             keys == {Abspath(r[1]) : r \in rows}
         IN  [k \in keys |-> (CHOOSE r \in rows : Abspath(r[1]) = k)[2]]

\* ------------------------------------------------- startup reconciliation
added_set(existing_hashes, current_hashes) ==
    (DOMAIN current_hashes) \ (DOMAIN existing_hashes)

deleted_set(existing_hashes, current_hashes) ==
    (DOMAIN existing_hashes) \ (DOMAIN current_hashes)

\* modified_files without the comparison of the two hashes.
modified_set_nocompare(existing_hashes, current_hashes) ==
    {f \in DOMAIN current_hashes : f \in DOMAIN existing_hashes}

modified_set(existing_hashes, current_hashes) ==
    {f \in DOMAIN current_hashes :
        f \in DOMAIN existing_hashes /\ current_hashes[f] # existing_hashes[f]}

all_hashes_of(existing_hashes, current_hashes) ==
    Without(Merge(existing_hashes, current_hashes),
            deleted_set(existing_hashes, current_hashes))

\* ------------------------------------------------------- document loading
\* A Document is [source, page, c, n]: the path string it was loaded from, its
\* page (NoPage when the loader sets none), the content it was read from and
\* the number of chunks its text splits into.
NoPage == -1

TextExts == {".txt", ".md"}

Raised(kind) == [ok |-> FALSE, err |-> kind, docs |-> <<>>]
Loaded(docs) == [ok |-> TRUE, err |-> "", docs |-> docs]

\* TextLoader(path).load(), Docx2txtLoader(path).load(),
\* UnstructuredPowerPointLoader(path).load(): one Document, no page; a missing
\* or unreadable file raises.
load_one(path, v) ==
    IF v.st # "file" THEN Raised("LoadError")
    ELSE Loaded(<<[source |-> path, page |-> NoPage, c |-> v.c, n |-> v.c]>>)

\* PyPDFLoader(path).load(): one Document per page, pages 0..c-1 for content c.
load_pdf(path, v) ==
    IF v.st # "file" THEN Raised("LoadError")
    ELSE Loaded([k \in 1..v.c |-> [source |-> path, page |-> k - 1, c |-> v.c, n |-> 1]])

\* load_document(data_path)
load_document(data_path, disk) ==
    LET v == Read(disk, data_path)
        b == data_path.base
    IN  IF EndsWithExt(b, ".txt") \/ EndsWithExt(b, ".md") THEN load_one(data_path, v)
        ELSE IF EndsWithExt(b, ".docx") THEN load_one(data_path, v)
        ELSE IF EndsWithExt(b, ".pptx") THEN load_one(data_path, v)
        ELSE IF EndsWithExt(b, ".pdf") THEN load_pdf(data_path, v)
        ELSE Raised("ValueError")

\* Some enumeration of a finite set (os.walk lists a directory in no fixed order).
RECURSIVE SetToSeq(_)
SetToSeq(S) ==
    IF S = {} THEN <<>>
    ELSE LET x == CHOOSE y \in S : TRUE IN <<x>> \o SetToSeq(S \ {x})

RECURSIVE Flatten(_)
Flatten(ss) == IF ss = <<>> THEN <<>> ELSE Head(ss) \o Flatten(Tail(ss))

\* load_folder's loops with a failure that ends the batch.
LoadEach_abort(fs, data_path, disk, pdf) ==
    IF \E i \in 1..Len(fs) : Read(disk, Join(data_path, fs[i])).st # "file"
    THEN <<>>
    ELSE Flatten([i \in 1..Len(fs) |->
            LET p == Join(data_path, fs[i])
            IN  IF pdf THEN load_pdf(p, Read(disk, p)).docs
                ELSE load_one(p, Read(disk, p)).docs])

\* The documents of the files of fs, in order; a file whose loader raises is
\* skipped (the try/except around each load in load_folder).
LoadEach(fs, data_path, disk, pdf) ==
    Flatten([i \in 1..Len(fs) |->
        LET p == Join(data_path, fs[i])
            r == IF pdf THEN load_pdf(p, Read(disk, p)) ELSE load_one(p, Read(disk, p))
        IN  IF r.ok THEN r.docs ELSE <<>>])

\* load_folder(data_path): the files os.walk lists, the PDFs first, then the
\* text files; data_path is the folder string as the caller gave it.
load_folder(data_path, disk) ==
    LET files == {b \in DOMAIN disk : IsFile(disk[b])}
        pdf_files == SetToSeq({b \in files : EndsWithExt(b, ".pdf")})
        text_files == SetToSeq({b \in files : \E e \in TextExts : EndsWithExt(b, e)})
    IN  LoadEach(pdf_files, data_path, disk, TRUE)
            \o LoadEach(text_files, data_path, disk, FALSE)

\* split_documents: each Document becomes its n chunks, in order, each tagged
\* with the Document's source and page.
split_documents(documents) ==
    Flatten([i \in 1..Len(documents) |->
        [k \in 1..documents[i].n |->
            [source |-> documents[i].source, page |-> documents[i].page,
             text |-> <<documents[i].c, k>>]]])

\* f"{source}:{page}": the page id of a chunk.  Pages are integers or None
\* and the page follows the last colon, so two page ids are equal exactly
\* when source and page are; last_page_id starts as None.
PageId(source, page) == [set |-> TRUE, source |-> source, page |-> page]
NoPageId == [set |-> FALSE, source |-> Join(AbsFolder, <<>>), page |-> NoPage]

\* The loop body's index with no reset.
next_chunk_index_always(last_page_id, current_page_id, current_chunk_index) ==
    current_chunk_index + 1

\* The loop body of calculate_chunk_ids: the index of the chunk at hand.
next_chunk_index(last_page_id, current_page_id, current_chunk_index) ==
    IF current_page_id = last_page_id THEN current_chunk_index + 1 ELSE 0

\* The loop of calculate_chunk_ids before its first iteration.
NoLoop == [chunks |-> <<>>, done |-> 0, last_page_id |-> NoPageId,
           current_chunk_index |-> 0, out |-> <<>>]

\* calculate_chunk_ids with an index that never advances.
chunk_index_zero(chunks) == [i \in 1..Len(chunks) |-> 0]

\* calculate_chunk_ids: the running index restarts at 0 whenever source:page
\* differs from the previous chunk's.  An id "source:page:index" is the
\* record [source, page, idx].
chunk_index(chunks) ==
    LET idx[i \in 1..Len(chunks)] ==
            IF i > 1 /\ chunks[i].source = chunks[i - 1].source
                     /\ chunks[i].page = chunks[i - 1].page
            THEN idx[i - 1] + 1
            ELSE 0
    IN  idx

calculate_chunk_ids(chunks) ==
    [i \in 1..Len(chunks) |->
        [id |-> [source |-> chunks[i].source, page |-> chunks[i].page,
                 idx |-> chunk_index(chunks)[i]],
         source |-> chunks[i].source, page |-> chunks[i].page,
         text |-> chunks[i].text]]

\* ------------------------------------------------------------ index store
\* The Chroma collection: a set of entries [id, source, page, text], one per id.
Range(s) == {s[i] : i \in 1..Len(s)}

\* existing_ids read as empty.
Ids_none(entries) == {}

Ids(entries) == {e.id : e \in entries}

\* db.add_documents(chunks, ids=...): an id already stored is overwritten.
add_documents(db, new_chunks) ==
    {e \in db : e.id \notin Ids(Range(new_chunks))} \cup Range(new_chunks)

\* db.delete(ids=...)
delete(db, ids) == {e \in db : e.id \notin ids}

\* The operations on the Chroma collection that a store failure can hit, and
\* "none" for a store that works.
FailPoints == {"none", "get", "delete", "add_documents"}

\* What a function working on the collection did: ok is FALSE when a store
\* operation raised (failed tells that one did), db is the collection
\* afterwards, added the ids passed to add_documents and at the collection as
\* it was when they were passed.
Stored(db, added, at) ==
    [ok |-> TRUE, failed |-> FALSE, db |-> db, added |-> added, at |-> at]
StoreRaised(db) ==
    [ok |-> FALSE, failed |-> TRUE, db |-> db, added |-> <<>>, at |-> db]

IdSeq(chunks) == [i \in 1..Len(chunks) |-> chunks[i].id]

\* add_to_chroma without the test against existing_ids.
add_to_chroma_all(chunks, db, fail_at) ==
    Stored(add_documents(db, calculate_chunk_ids(chunks)),
           IdSeq(calculate_chunk_ids(chunks)), db)

\* add_to_chroma(chunks, ...) with a store that fails at fail_at: no store
\* operation is wrapped in a try.
add_to_chroma_at(chunks, db, fail_at) ==
    LET chunks_with_ids == calculate_chunk_ids(chunks)
        existing_ids == Ids(db)
        new_chunks == SelectSeq(chunks_with_ids, LAMBDA ch : ch.id \notin existing_ids)
    IN  IF fail_at = "get" THEN StoreRaised(db)
        ELSE IF new_chunks # <<>> THEN
            IF fail_at = "add_documents" THEN StoreRaised(db)
            ELSE Stored(add_documents(db, new_chunks), IdSeq(new_chunks), db)
        ELSE Stored(db, <<>>, db)

\* add_to_chroma(chunks, ...): insert the chunks whose id is not yet stored.
add_to_chroma(chunks, db) == add_to_chroma_at(chunks, db, "none").db

\* modify_to_chroma(chunks, ...) with a store that fails at fail_at:
\* existing_ids is read before the delete, and the chunks inserted afterwards
\* are those whose id was not in existing_ids.
modify_to_chroma_at(chunks, db, fail_at) ==
    LET new_chunks_with_ids == calculate_chunk_ids(chunks)
        existing_ids == Ids(db)
        sources_to_remove == {ch.source : ch \in Range(new_chunks_with_ids)}
        chunks_to_remove == {item.id : item \in {e \in db : e.source \in sources_to_remove}}
        db1 == IF chunks_to_remove # {} THEN delete(db, chunks_to_remove) ELSE db
        new_chunks == SelectSeq(new_chunks_with_ids, LAMBDA ch : ch.id \notin existing_ids)
    IN  IF fail_at = "get" THEN StoreRaised(db)
        ELSE IF chunks_to_remove # {} /\ fail_at = "delete" THEN StoreRaised(db)
        ELSE IF new_chunks # <<>> THEN
            IF fail_at = "add_documents" THEN StoreRaised(db1)
            ELSE Stored(add_documents(db1, new_chunks), IdSeq(new_chunks), db1)
        ELSE Stored(db1, <<>>, db1)

modify_to_chroma(chunks, db) == modify_to_chroma_at(chunks, db, "none").db

\* remove_from_chroma deleting whatever the source.
remove_from_chroma_all(document_path, db, fail_at) == Stored({}, <<>>, db)

\* remove_from_chroma(document_path, ...) with a store that fails at fail_at.
remove_from_chroma_at(document_path, db, fail_at) ==
    LET chunks_to_remove == {item.id : item \in {e \in db : e.source = document_path}}
    IN  IF fail_at = "get" THEN StoreRaised(db)
        ELSE IF chunks_to_remove # {} THEN
            IF fail_at = "delete" THEN StoreRaised(db)
            ELSE Stored(delete(db, chunks_to_remove), <<>>, db)
        ELSE Stored(db, <<>>, db)

remove_from_chroma(document_path, db) ==
    remove_from_chroma_at(document_path, db, "none").db

\* clear_database leaving the directory in place.
clear_database_keep(db) == db

\* clear_database(chroma_path): the backing directory is removed.
clear_database(db) == {}

\* run(chroma_path, data_path, model_type, scan_type) with a store that fails
\* at fail_at: [ok, failed, db, loaded, pass, added, at].  ok is FALSE when
\* the call raises; failed tells that a store operation raised; db is the
\* index afterwards; loaded tells whether a document loader was invoked; pass
\* is the ids calculate_chunk_ids assigned; added and at are as in Stored.
\* data_path is a path for modify and remove and the folder string for the
\* other scan types.
RunOf(s, loaded, pass) ==
    [ok |-> s.ok, failed |-> s.failed, db |-> s.db, loaded |-> loaded,
     pass |-> pass, added |-> s.added, at |-> s.at]

run_at(db, disk, data_path, scan_type, fail_at) ==
    IF scan_type = "reset" THEN
        RunOf(Stored(clear_database(db), <<>>, db), FALSE, <<>>)
    ELSE IF scan_type = "modify" THEN
        LET document == load_document(data_path, disk)
            chunks == split_documents(document.docs)
        IN  IF ~document.ok
            THEN RunOf([Stored(db, <<>>, db) EXCEPT !.ok = FALSE], TRUE, <<>>)
            ELSE RunOf(modify_to_chroma_at(chunks, db, fail_at), TRUE,
                       IdSeq(calculate_chunk_ids(chunks)))
    ELSE IF scan_type = "remove" THEN
        RunOf(remove_from_chroma_at(data_path, db, fail_at), FALSE, <<>>)
    ELSE
        LET chunks == split_documents(load_folder(data_path, disk))
        IN  RunOf(add_to_chroma_at(chunks, db, fail_at), TRUE,
                  IdSeq(calculate_chunk_ids(chunks)))

run(db, disk, data_path, scan_type) == run_at(db, disk, data_path, scan_type, "none")

\* Chat.start_watch.on_file_change(event_type, file_path): the run it makes,
\* or no run for an event type it does not know.
NoRun == RunOf(Stored({}, <<>>, {}), FALSE, <<>>)

on_file_change(event_type, file_path, db, disk, watched_folder) ==
    IF event_type = "file_added" THEN
        [ran |-> "full", res |-> run(db, disk, watched_folder, "full")]
    ELSE IF event_type = "file_modified" THEN
        [ran |-> "modify", res |-> run(db, disk, file_path, "modify")]
    ELSE IF event_type = "deleted" THEN
        [ran |-> "remove", res |-> run(db, disk, file_path, "remove")]
    ELSE [ran |-> "none", res |-> [NoRun EXCEPT !.db = db]]

\* --------------------------------------------------------- runtime events
\* A watchdog notification: event_type is "created", "modified" or "deleted"
\* (watchdog dispatches these to on_created, on_modified, on_deleted), src_path
\* lies under the folder as it was scheduled.
Event(t, p, d) == [event_type |-> t, src_path |-> p, is_directory |-> d]

Filtered(file_path) ==
    \/ EndsWithHashFileName(file_path.base)
    \/ EndsWithExt(file_path.base, ".tmp")
    \/ StartsWithLockPrefix(file_path.base)

Unhandled(file_hashes) == [file_hashes |-> file_hashes, saved |-> FALSE, calls |-> <<>>]
Handled(file_hashes, kind, file_path) ==
    [file_hashes |-> file_hashes, saved |-> TRUE, calls |-> <<<<kind, file_path>>>>]

\* FolderWatcher._handle_event(event) up to the callback: the map afterwards,
\* whether it was saved, and the callback invocations made, in order.
handle_event(event, file_hashes, is_initializing, disk) ==
    LET file_path == Abspath(event.src_path)
        new_hash == compute_file_hash(Read(disk, file_path))
        old_hash == Get(file_hashes, file_path)
    IN  IF is_initializing THEN Unhandled(file_hashes)
        ELSE IF event.is_directory THEN Unhandled(file_hashes)
        ELSE IF Filtered(file_path) THEN Unhandled(file_hashes)
        ELSE IF event.event_type = "file_deleted" THEN
            IF file_path \in DOMAIN file_hashes
            THEN Handled(Without(file_hashes, {file_path}), "deleted", file_path)
            ELSE Unhandled(file_hashes)
        ELSE IF old_hash = None /\ Truthy(new_hash) THEN
            Handled(Put(file_hashes, file_path, new_hash), "file_added", file_path)
        ELSE IF old_hash # new_hash /\ Truthy(new_hash) THEN
            Handled(Put(file_hashes, file_path, new_hash), "file_modified", file_path)
        ELSE Unhandled(file_hashes)

\* ------------------------------------------------------------------ state
VARIABLES
    watched_folder,   \* Chat.watched_folder, as the user gave it
    disk,             \* the files of the watched folder: name -> disk value
    csv,              \* file_hashes.csv in the watched folder
    db,               \* the Chroma collection at Chat.db_path
    pc,               \* where Chat.start_watch is
    starts,           \* times start_watch was started
    changes,          \* changes the environment made
    is_initializing,  \* FolderWatcher.is_initializing
    file_hashes,      \* FolderWatcher.file_hashes
    existing_hashes,  \* _initialize_hashes: existing_hashes
    listing,          \* _compute_all_hashes: the file names os.walk listed
    current_hashes,   \* _initialize_hashes: current_hashes
    init_calls,       \* the callback invocations _initialize_hashes made
    queue,            \* notifications the observer has not dispatched yet
    last,             \* the last notification dispatched and what it did
    raced,            \* the folder changed while startup reconciliation ran
    call,             \* the last direct invocation of run and its outcome
    tpc,              \* per dispatching thread: where it is in _handle_event
    tloc,             \* per dispatching thread: event, file_path, new_hash, old_hash
    lock,             \* FolderWatcher.lock: the thread holding it, or 0
    conc_calls,       \* callback invocations made by the dispatching threads
    loop              \* calculate_chunk_ids: its chunks, position and locals

vars == <<watched_folder, disk, csv, db, pc, starts, changes, is_initializing,
          file_hashes, existing_hashes, listing, current_hashes, init_calls,
          queue, last, raced, call, tpc, tloc, lock, conc_calls, loop>>

envVars == <<disk, changes, raced>>
initVars == <<existing_hashes, listing, current_hashes, init_calls>>
watcherVars == <<pc, starts, is_initializing, file_hashes, initVars, queue, last>>
\* What the watcher and its owner never touch.
threadVars == <<tpc, tloc, lock, conc_calls>>
otherVars == <<call, threadVars, loop>>

A_TXT == <<"a", ".txt">>
B_PNG == <<"b", ".png">>

N_TMP == <<"n", ".tmp">>

\* The file names a behaviour's environment uses: a document and a file of
\* another kind, or a document and an editor's temporary file.
Worlds == {{A_TXT, B_PNG}, {A_TXT, N_TMP}}

NoEvent == Event("none", Join(AbsFolder, <<>>), FALSE)
C_PDF == <<"c", ".pdf">>

\* The file names the environment uses when run is invoked directly.
RunWorlds == {{A_TXT, C_PDF}}

ScanTypes == {"full", "modify", "remove", "reset"}

NoDisk == [b \in {} |-> Absent]

NoCall == [scan_type |-> "none", data_path |-> Join(AbsFolder, <<>>), before |-> {},
           disk |-> NoDisk, ok |-> TRUE, loaded |-> FALSE, failed |-> FALSE,
           pass |-> <<>>, added |-> <<>>, at |-> {}, again |-> FALSE,
           rebuilt |-> FALSE, orig_set |-> FALSE, orig_disk |-> NoDisk,
           orig_ids |-> {}]

Threads == 1..NThreads
NoLocals == [event |-> NoEvent, file_path |-> Join(AbsFolder, <<>>),
             new_hash |-> None, old_hash |-> None, kind |-> "none"]

NoLast == [event |-> NoEvent, before |-> EmptyMap, calls |-> <<>>, ran |-> "none",
           raised |-> FALSE]

Init ==
    /\ watched_folder \in {RelFolder, AbsFolder}
    /\ \E w \in Worlds : disk = [b \in w |-> Absent]
    /\ csv = NoCsv
    /\ db = {}
    /\ pc = "down"
    /\ starts = 0
    /\ changes = 0
    /\ is_initializing = FALSE
    /\ file_hashes = EmptyMap
    /\ existing_hashes = EmptyMap
    /\ listing = {}
    /\ current_hashes = EmptyMap
    /\ init_calls = <<>>
    /\ queue = <<>>
    /\ last = NoLast
    /\ raced = FALSE
    /\ call = NoCall
    /\ tpc = [t \in Threads |-> "idle"]
    /\ tloc = [t \in Threads |-> NoLocals]
    /\ lock = 0
    /\ conc_calls = <<>>
    /\ loop = NoLoop

\* The observer is subscribed and dispatching.
Subscribed == pc = "watching"

\* Startup reconciliation is between its first disk read and observer.start().
Reconciling == pc \in {"init_load", "init_hash", "init_emit", "init_save"}

Notify(t, b) ==
    IF Subscribed THEN Append(queue, Event(t, Join(watched_folder, b), FALSE))
    ELSE queue

\* ------------------------------------------------------------ environment
\* A file of the folder is created or rewritten (readable with content c, or
\* unreadable).
EnvWrite ==
    /\ changes < MaxChanges
    /\ \E b \in DOMAIN disk : \E v \in DiskValues \ {Absent} :
        /\ disk[b] # v
        /\ disk' = [disk EXCEPT ![b] = v]
        /\ queue' = Notify(IF IsFile(disk[b]) THEN "modified" ELSE "created", b)
    /\ changes' = changes + 1
    /\ raced' = (raced \/ Reconciling)
    /\ UNCHANGED <<watched_folder, csv, db, pc, starts, is_initializing, file_hashes,
                   initVars, last, otherVars>>

\* A file of the folder is deleted.
EnvDelete ==
    /\ changes < MaxChanges
    /\ \E b \in DOMAIN disk :
        /\ IsFile(disk[b])
        /\ disk' = [disk EXCEPT ![b] = Absent]
        /\ queue' = Notify("deleted", b)
    /\ changes' = changes + 1
    /\ raced' = (raced \/ Reconciling)
    /\ UNCHANGED <<watched_folder, csv, db, pc, starts, is_initializing, file_hashes,
                   initVars, last, otherVars>>

\* A subdirectory is created under the folder: a directory notification.
EnvMkdir ==
    /\ changes < MaxChanges
    /\ Subscribed
    /\ queue' = Append(queue, Event("created", Join(watched_folder, <<"sub">>), TRUE))
    /\ changes' = changes + 1
    /\ UNCHANGED <<watched_folder, disk, csv, db, pc, starts, is_initializing,
                   file_hashes, initVars, last, raced, otherVars>>

\* file_hashes.csv is damaged while the application is down: a reader gets
\* some of its rows and raises.
EnvDamage ==
    /\ changes < MaxChanges
    /\ pc = "down"
    /\ csv.exists
    /\ ~csv.raises
    /\ \E kept \in SUBSET csv.rows :
        csv' = [exists |-> TRUE, rows |-> kept, raises |-> TRUE]
    /\ changes' = changes + 1
    /\ UNCHANGED <<watched_folder, disk, raced, db, pc, starts, is_initializing,
                   file_hashes, initVars, queue, last, otherVars>>

\* ---------------------------------------------------------------- startup
\* Chat.start_watch up to the FolderWatcher constructor: the folder is made
\* if missing and a full scan is run.
Start ==
    /\ pc = "down"
    /\ starts < MaxStarts
    /\ starts' = starts + 1
    /\ db' = run(db, disk, watched_folder, "full").db
    /\ pc' = "init_load"
    /\ UNCHANGED <<watched_folder, envVars, csv, is_initializing, file_hashes,
                   initVars, queue, last, otherVars>>

\* os.walk(folder_to_watch): the names of the files in the folder, the hash
\* file among them once it is written.
os_walk(d, hash_file) ==
    {b \in DOMAIN d : IsFile(d[b])}
        \cup (IF hash_file.exists THEN {HashFileName} ELSE {})

\* _compute_all_hashes hashing every file os.walk lists.
walked_files_all(files) == files

\* The files _compute_all_hashes hashes: all but the hash file.
walked_files(files) == {b \in files : b # HashFileName}

\* FolderWatcher.__init__ and _initialize_hashes up to the folder listing:
\* the persisted map is loaded and os.walk lists the folder.
InitLoad ==
    /\ pc = "init_load"
    /\ is_initializing' = TRUE
    /\ existing_hashes' = load_hashes(csv)
    /\ listing' = walked_files(os_walk(disk, csv))
    /\ current_hashes' = EmptyMap
    /\ init_calls' = <<>>
    /\ pc' = "init_hash"
    /\ UNCHANGED <<watched_folder, envVars, csv, db, starts, file_hashes, queue,
                   last, otherVars>>

\* _compute_all_hashes: every listed file is hashed under its absolute path.
compute_all_hashes(folder_to_watch, files, d) ==
    LET paths == {Abspath(Join(folder_to_watch, b)) : b \in files}
    IN  [p \in paths |-> compute_file_hash(Read(d, p))]

\* The callback invocations _initialize_hashes may make next: the loops run
\* over added_files, then deleted_files, then modified_files, each set in no
\* fixed order.  calls is the invocations made so far, each <<event_type,
\* file_path, the scan the owner ran for it>>.
Called(calls, kind) == {calls[i][2] : i \in {j \in 1..Len(calls) : calls[j][1] = kind}}

next_calls(existing, current, calls) ==
    LET added_files == added_set(existing, current) \ Called(calls, "file_added")
        deleted_files == deleted_set(existing, current) \ Called(calls, "file_deleted")
        modified_files == modified_set(existing, current) \ Called(calls, "file_modified")
    IN  IF added_files # {} THEN {<<"file_added", f>> : f \in added_files}
        ELSE IF deleted_files # {} THEN {<<"file_deleted", f>> : f \in deleted_files}
        ELSE {<<"file_modified", f>> : f \in modified_files}

\* Where _initialize_hashes is after the invocations calls: in its loops, or
\* past them.
after_calls(existing, current, calls) ==
    IF next_calls(existing, current, calls) = {} THEN "init_save" ELSE "init_emit"

InitHash ==
    /\ pc = "init_hash"
    /\ current_hashes' = compute_all_hashes(watched_folder, listing, disk)
    /\ pc' = after_calls(existing_hashes, current_hashes', <<>>)
    /\ UNCHANGED <<watched_folder, envVars, csv, db, starts, is_initializing,
                   file_hashes, existing_hashes, listing, init_calls, queue,
                   last, otherVars>>

\* One callback invocation of _initialize_hashes.  An exception of the
\* callback leaves the constructor and start_watch: nothing is saved and no
\* observer is started.
InitEmit ==
    /\ pc = "init_emit"
    /\ \E c \in next_calls(existing_hashes, current_hashes, init_calls) :
        LET r == on_file_change(c[1], c[2], db, disk, watched_folder)
        IN  /\ init_calls' = Append(init_calls, <<c[1], c[2], r.ran>>)
            /\ db' = r.res.db
            /\ pc' = IF r.res.ok
                     THEN after_calls(existing_hashes, current_hashes, init_calls')
                     ELSE "crashed"
    /\ UNCHANGED <<watched_folder, envVars, csv, starts, is_initializing, file_hashes,
                   existing_hashes, listing, current_hashes, queue, last, otherVars>>

\* The end of _initialize_hashes and of the constructor, then observer.start().
InitSave ==
    /\ pc = "init_save"
    /\ csv' = save_hashes(all_hashes_of(existing_hashes, current_hashes))
    /\ file_hashes' = all_hashes_of(existing_hashes, current_hashes)
    /\ is_initializing' = FALSE
    /\ pc' = "watching"
    /\ UNCHANGED <<watched_folder, envVars, db, starts, initVars, queue,
                   last, otherVars>>

\* ---------------------------------------------------------------- runtime
\* The observer thread dispatches one notification to the handler:
\* _handle_event, the save it makes and the owner's callback.  A save is a
\* write to file_hashes.csv inside the folder, which the observer reports
\* too.  An exception of the callback ends the observer thread.
HandleEvent ==
    /\ pc = "watching"
    /\ queue # <<>>
    /\ LET event == Head(queue)
           h == handle_event(event, file_hashes, is_initializing, disk)
           r == IF h.calls = <<>> THEN [ran |-> "none", res |-> [NoRun EXCEPT !.db = db]]
                ELSE on_file_change(h.calls[1][1], h.calls[1][2], db, disk, watched_folder)
       IN  /\ file_hashes' = h.file_hashes
           /\ csv' = IF h.saved THEN save_hashes(h.file_hashes) ELSE csv
           /\ db' = r.res.db
           /\ pc' = IF r.res.ok THEN "watching" ELSE "dead"
           /\ queue' = IF h.saved
                       THEN Append(Tail(queue),
                                   Event("modified", Join(watched_folder, HashFileName), FALSE))
                       ELSE Tail(queue)
           /\ last' = [event |-> event, before |-> file_hashes, calls |-> h.calls,
                       ran |-> r.ran, raised |-> ~r.res.ok]
    /\ UNCHANGED <<watched_folder, envVars, starts, is_initializing,
                   initVars, otherVars>>

\* The application ends (start_watch is cancelled, or the process exits): the
\* observer is stopped and what was in memory is gone.
Stop ==
    /\ pc \in {"watching", "dead", "crashed"}
    /\ pc' = "down"
    /\ queue' = <<>>
    /\ file_hashes' = EmptyMap
    /\ is_initializing' = FALSE
    /\ existing_hashes' = EmptyMap
    /\ listing' = {}
    /\ current_hashes' = EmptyMap
    /\ init_calls' = <<>>
    /\ raced' = FALSE
    /\ UNCHANGED <<watched_folder, disk, changes, csv, db, starts, last, otherVars>>

Next ==
    \/ EnvWrite
    \/ EnvDelete
    \/ EnvMkdir
    \/ EnvDamage
    \/ Start
    \/ InitLoad
    \/ InitHash
    \/ InitEmit
    \/ InitSave
    \/ HandleEvent
    \/ Stop

Spec == Init /\ [][Next]_vars

\* ----------------------------------------------------------------- claims
\* The path the detector uses for the file of name b.
DetectorPath(b) == Abspath(Join(watched_folder, b))

\* The files present in the folder, as the detector names them.
OnDisk == {DetectorPath(b) : b \in {x \in DOMAIN disk : IsFile(disk[x])}}

\* Every notification has been dispatched and handled, and no change of the
\* folder fell between the listing of startup reconciliation and the start
\* of the observer.
Quiescent == pc = "watching" /\ queue = <<>> /\ ~raced

\* The (page, index) parts of the ids the index holds for the file of name b,
\* whichever spelling of its path they were stored under.
IndexedParts(b) ==
    {<<e.id.page, e.id.idx>> : e \in {x \in db : Abspath(x.source) = DetectorPath(b)}}

\* The (page, index) parts of the chunk ids of the current content of b.
CurrentParts(b) ==
    LET chunks == calculate_chunk_ids(
                      split_documents(load_document(DetectorPath(b), disk).docs))
    IN  {<<ch.id.page, ch.id.idx>> : ch \in Range(chunks)}

\* C1: once every emitted event has been handled by the owner's callback,
\* the index holds no entry of a file that is no longer on disk, no two
\* entries with one id, and for every loadable file on disk exactly the chunk
\* ids of its current content.
C1_EndToEndSync ==
    Quiescent =>
        /\ \A e \in db : Abspath(e.source) \in OnDisk
        /\ \A e1, e2 \in db : e1.id = e2.id => e1 = e2
        /\ \A b \in DOMAIN disk :
              load_document(DetectorPath(b), disk).ok => IndexedParts(b) = CurrentParts(b)

\* How often calls holds an invocation for path p (of event type kind).
CountKind(calls, kind, p) ==
    Cardinality({i \in 1..Len(calls) : calls[i][1] = kind /\ calls[i][2] = p})
CountPath(calls, p) == Cardinality({i \in 1..Len(calls) : calls[i][2] = p})

C3_MapIsFolder ==
    Quiescent =>
        /\ DOMAIN file_hashes \subseteq OnDisk
        /\ DOMAIN load_hashes(csv) \subseteq OnDisk

\* C4: a delete notification, as on_deleted delivers it, for a tracked path
\* removes the path from the map, persists the map and invokes the callback
\* exactly once, with the deleted kind; for an untracked path it changes
\* nothing and emits nothing.
C4_RuntimeDelete ==
    [][(HandleEvent /\ Head(queue).event_type = "deleted"
                    /\ ~Head(queue).is_directory
                    /\ ~Filtered(Abspath(Head(queue).src_path)))
        => LET p == Abspath(Head(queue).src_path)
           IN  IF p \in DOMAIN file_hashes
               THEN /\ p \notin DOMAIN file_hashes'
                    /\ csv' = save_hashes(file_hashes')
                    /\ Len(last'.calls) = 1
                    /\ last'.calls[1] = <<"deleted", p>>
               ELSE /\ file_hashes' = file_hashes
                    /\ csv' = csv
                    /\ last'.calls = <<>>]_vars

\* C6: for a create or modify notification on a non-filtered file path, an
\* untracked path with a non-null new hash yields exactly one added event, a
\* tracked path whose new hash differs from the stored one exactly one
\* modified event, a tracked path whose new hash equals the stored one no
\* event, and a null new hash no event.
C6_RuntimeClassification ==
    [][(HandleEvent /\ Head(queue).event_type \in {"created", "modified"}
                    /\ ~Head(queue).is_directory
                    /\ ~Filtered(Abspath(Head(queue).src_path)))
        => LET p == Abspath(Head(queue).src_path)
               new_hash == compute_file_hash(Read(disk, p))
           IN  IF new_hash = None THEN last'.calls = <<>>
               ELSE IF p \notin DOMAIN file_hashes
                    THEN last'.calls = <<<<"file_added", p>>>>
               ELSE IF file_hashes[p] # new_hash
                    THEN last'.calls = <<<<"file_modified", p>>>>
               ELSE last'.calls = <<>>]_vars

\* The scan that matches a kind of change.
MatchingScan(kind) ==
    IF kind \in {"file_added", "added"} THEN "full"
    ELSE IF kind \in {"file_modified", "modified"} THEN "modify"
    ELSE "remove"

\* C8: every change the detector reports, in startup and in runtime mode, is
\* mapped by the owner's callback to the matching scan: full for an added,
\* modify for a modified, remove for a deleted file.
C8_KindsMapped ==
    /\ \A i \in 1..Len(init_calls) : init_calls[i][3] = MatchingScan(init_calls[i][1])
    /\ last.calls # <<>> => last.ran = MatchingScan(last.calls[1][1])

\* C10: a file that cannot be hashed produces no event and no null hash is
\* recorded as its state: no added or modified invocation of startup
\* reconciliation is for a path whose computed hash is null, and the map the
\* detector holds has no null hash.
C10_UnhashableIsUnchanged ==
    /\ \A i \in 1..Len(init_calls) :
          (init_calls[i][1] \in {"file_added", "file_modified"}
              /\ init_calls[i][2] \in DOMAIN current_hashes)
          => current_hashes[init_calls[i][2]] # None
    /\ \A p \in DOMAIN file_hashes : file_hashes[p] # None

\* C16: once the delete notification of a tracked file is handled, the path
\* is no key of the persisted hash map, and the startup reconciliation that
\* follows, the file still gone, makes no callback invocation for the path.
C16_DeletedStaysGone ==
    LET p == Abspath(last.event.src_path)
        handled == /\ last.event.event_type = "deleted"
                   /\ ~last.event.is_directory
                   /\ ~Filtered(p)
                   /\ p \in DOMAIN last.before
    IN  /\ (handled /\ pc = "watching" /\ queue = <<>> /\ p \notin OnDisk) =>
            p \notin DOMAIN load_hashes(csv)
        /\ (handled /\ pc = "init_save" /\ ~raced /\ p \notin DOMAIN current_hashes) =>
            (p \notin DOMAIN existing_hashes /\ CountPath(init_calls, p) = 0)

\* C18: when file_hashes.csv is missing or its reader raises, startup
\* reconciliation starts from an empty prior map, does not raise, and
\* reports every file of the folder as added and nothing else.
C18_FreshStart ==
    (pc \in {"init_hash", "init_emit", "init_save", "crashed"}
        /\ (~csv.exists \/ csv.raises)) =>
        /\ pc # "crashed"
        /\ existing_hashes = EmptyMap
        /\ \A i \in 1..Len(init_calls) : init_calls[i][1] = "file_added"
        /\ pc = "init_save" =>
            \A p \in DOMAIN current_hashes : CountKind(init_calls, "file_added", p) = 1

\* C20: the path of file_hashes.csv is never a key of the hash map, in
\* memory, while it is computed or as persisted, and no callback invocation
\* names it, at startup or for a notification, the notifications of the
\* detector's own saves included.
C20_HashFileExcluded ==
    /\ \A p \in (DOMAIN file_hashes) \cup (DOMAIN current_hashes)
                \cup (DOMAIN existing_hashes) \cup (DOMAIN load_hashes(csv)) :
        p.base # HashFileName
    /\ \A i \in 1..Len(init_calls) : init_calls[i][2].base # HashFileName
    /\ \A i \in 1..Len(last.calls) : last.calls[i][2].base # HashFileName
    /\ last.event.src_path.base = HashFileName => (last.calls = <<>> /\ last.ran = "none")

\* A watcher started over a folder that held file_hashes.csv already has
\* dispatched the notification of its own save.
C20_Witness ==
    /\ pc = "watching"
    /\ starts > 1
    /\ HashFileName \in os_walk(disk, csv)
    /\ last.event.src_path.base = HashFileName

\* ------------------------------------------------- run, invoked directly
\* run is the reconciler's entry point (the command line of vector_db.py,
\* Chat.modify_db_path, any importer of the module).  Here it is invoked
\* directly on the folder, between changes of the folder, with no watcher.
InitRun ==
    /\ watched_folder \in {RelFolder, AbsFolder}
    /\ \E w \in RunWorlds : disk = [b \in w |-> Absent]
    /\ csv = NoCsv
    /\ db = {}
    /\ pc = "down"
    /\ starts = 0
    /\ changes = 0
    /\ is_initializing = FALSE
    /\ file_hashes = EmptyMap
    /\ existing_hashes = EmptyMap
    /\ listing = {}
    /\ current_hashes = EmptyMap
    /\ init_calls = <<>>
    /\ queue = <<>>
    /\ last = NoLast
    /\ raced = FALSE
    /\ call = NoCall
    /\ tpc = [t \in Threads |-> "idle"]
    /\ tloc = [t \in Threads |-> NoLocals]
    /\ lock = 0
    /\ conc_calls = <<>>
    /\ loop = NoLoop

\* The data_path arguments: the folder for a scan of the folder; for modify
\* and remove a file of it, spelled under the folder as given or absolute, or
\* a file of an extension load_document does not know.
DataPaths(scan_type) ==
    IF scan_type \in {"modify", "remove"}
    THEN {Join(d, b) : d \in {watched_folder, AbsDir(watched_folder)},
                       b \in (DOMAIN disk) \cup {B_PNG}}
    ELSE {watched_folder}

\* One invocation of run and what it did, as call records it.  The last five
\* fields tell of the invocations before it and are filled in by RunSeq.
RunRecord(scan_type, data_path, before, d, r) ==
    [scan_type |-> scan_type,
     data_path |-> IF scan_type \in {"modify", "remove"}
                   THEN data_path ELSE Join(data_path, <<>>),
     before |-> before, disk |-> d, ok |-> r.ok,
     loaded |-> r.loaded, failed |-> r.failed,
     pass |-> r.pass, added |-> r.added, at |-> r.at,
     again |-> FALSE, rebuilt |-> FALSE,
     orig_set |-> FALSE, orig_disk |-> NoDisk, orig_ids |-> {}]

RunCall ==
    \E scan_type \in ScanTypes \cup {"bogus"} :
        \E data_path \in DataPaths(scan_type) :
            LET r == run(db, disk, data_path, scan_type)
            IN  /\ db' = r.db
                /\ call' = RunRecord(scan_type, data_path, db, disk, r)
                /\ UNCHANGED <<watched_folder, envVars, csv, watcherVars, threadVars, loop>>

NextRun ==
    \/ EnvWrite
    \/ EnvDelete
    \/ RunCall

SpecRun == InitRun /\ [][NextRun]_vars

\* C5: after run(..., scan_type='modify') completes, the index entries whose
\* source is the document's path are exactly the chunks (by id) of the
\* document's current content, and the entries of every other source are as
\* they were.
C5_ModifyReplaces ==
    (call.scan_type = "modify" /\ call.ok) =>
        LET p == call.data_path
            chunks == calculate_chunk_ids(
                          split_documents(load_document(p, call.disk).docs))
        IN  /\ Ids({e \in db : e.source = p}) = Ids(Range(chunks))
            /\ {e \in db : e.source # p} = {e \in call.before : e.source # p}

\* C9: a scan type outside {full, modify, remove, reset} is rejected before
\* any side effect: the call raises, no document is loaded and the index is
\* as it was.
C9_InvalidScanTypeRejected ==
    (call.scan_type \notin ScanTypes \cup {"none"}) =>
        /\ ~call.ok
        /\ ~call.loaded
        /\ db = call.before

\* C12: the index never holds two entries of one id; no id passed to
\* add_documents is in the index at the moment it is passed; and a full scan
\* leaves every entry that was in the index as it was.
C12_IdsUnique ==
    /\ \A e1 \in db : \A e2 \in db : e1.id = e2.id => e1 = e2
    /\ \A i \in 1..Len(call.added) : call.added[i] \notin Ids(call.at)
    /\ call.scan_type = "full" => call.before \subseteq db

\* A full scan that inserted into an index that held entries already.
C12_Witness ==
    call.scan_type = "full" /\ call.added # <<>> /\ call.before # {}

\* C13: remove with path p deletes the entries whose source is p, leaves the
\* others as they were, loads and chunks nothing, and does not raise; with no
\* entry of source p the index is as it was.
C13_RemoveBySource ==
    call.scan_type = "remove" =>
        /\ db = {e \in call.before : e.source # call.data_path}
        /\ ({e \in call.before : e.source = call.data_path} = {} => db = call.before)
        /\ ~call.loaded
        /\ call.pass = <<>>
        /\ call.ok

\* A remove from an index that held entries of p and entries of another source.
C13_Witness ==
    /\ call.scan_type = "remove"
    /\ \E e \in call.before : e.source = call.data_path
    /\ \E e \in call.before : e.source # call.data_path

\* C15: the ids calculate_chunk_ids assigns in one full or modify operation
\* are pairwise distinct.
C15_PassIdsDistinct ==
    \A i \in 1..Len(call.pass) : \A j \in 1..Len(call.pass) :
        i # j => call.pass[i] # call.pass[j]

\* A full scan over two sources, one of several pages and one of several
\* chunks without a page.
C15_Witness ==
    /\ call.scan_type = "full"
    /\ \E i \in 1..Len(call.pass) : call.pass[i].idx > 0
    /\ \E i \in 1..Len(call.pass) : call.pass[i].page > 0

\* ------------------------------------- the handler on concurrent threads
\* The watcher has been constructed over an empty folder and is subscribed;
\* notifications are dispatched to its handler by NThreads threads, each
\* running _handle_event statement by statement.  The lock is taken where
\* the code takes it: inside _save_hashes.
ConcWorlds == {{A_TXT}}

InitConc ==
    /\ watched_folder \in {RelFolder, AbsFolder}
    /\ \E w \in ConcWorlds : disk = [b \in w |-> Absent]
    /\ csv = save_hashes(EmptyMap)
    /\ db = {}
    /\ pc = "watching"
    /\ starts = 1
    /\ changes = 0
    /\ is_initializing = FALSE
    /\ file_hashes = EmptyMap
    /\ existing_hashes = EmptyMap
    /\ listing = {}
    /\ current_hashes = EmptyMap
    /\ init_calls = <<>>
    /\ queue = <<>>
    /\ last = NoLast
    /\ raced = FALSE
    /\ call = NoCall
    /\ tpc = [t \in Threads |-> "idle"]
    /\ tloc = [t \in Threads |-> NoLocals]
    /\ lock = 0
    /\ conc_calls = <<>>
    /\ loop = NoLoop

concFrame == <<watched_folder, starts, is_initializing, initVars, last, raced, call, loop>>

\* One write to a file that the operating system reports twice (a creation as
\* created then modified, a rewrite as two modified notifications).
EnvWriteTwice ==
    /\ changes < MaxChanges
    /\ \E b \in DOMAIN disk : \E v \in DiskValues \ {Absent} :
        /\ disk[b] # v
        /\ disk' = [disk EXCEPT ![b] = v]
        /\ queue' = queue \o
              <<Event(IF IsFile(disk[b]) THEN "modified" ELSE "created",
                      Join(watched_folder, b), FALSE),
                Event("modified", Join(watched_folder, b), FALSE)>>
    /\ changes' = changes + 1
    /\ UNCHANGED <<csv, db, pc, file_hashes, threadVars, concFrame>>

\* Lines 113-125: a thread takes a notification; the early returns, and the
\* test of the event type.
Dispatch(t) ==
    /\ tpc[t] = "idle"
    /\ queue # <<>>
    /\ LET event == Head(queue)
           file_path == Abspath(event.src_path)
       IN  /\ queue' = Tail(queue)
           /\ IF is_initializing \/ event.is_directory \/ Filtered(file_path)
              THEN UNCHANGED <<tpc, tloc>>
              ELSE /\ tloc' = [tloc EXCEPT ![t] =
                                  [NoLocals EXCEPT !.event = event, !.file_path = file_path]]
                   /\ tpc' = [tpc EXCEPT ![t] =
                                  IF event.event_type = "file_deleted" THEN "del" ELSE "hash"]
    /\ UNCHANGED <<disk, changes, csv, db, pc, file_hashes, lock, conc_calls, concFrame>>

\* Line 133: new_hash = self._compute_file_hash(file_path)
HashStep(t) ==
    /\ tpc[t] = "hash"
    /\ tloc' = [tloc EXCEPT ![t].new_hash = compute_file_hash(Read(disk, tloc[t].file_path))]
    /\ tpc' = [tpc EXCEPT ![t] = "get"]
    /\ UNCHANGED <<disk, changes, csv, db, pc, file_hashes, queue, lock, conc_calls,
                   concFrame>>

\* Lines 134-140: old_hash = self.file_hashes.get(file_path) and the two tests.
GetStep(t) ==
    /\ tpc[t] = "get"
    /\ LET old_hash == Get(file_hashes, tloc[t].file_path)
           new_hash == tloc[t].new_hash
           kind == IF old_hash = None /\ Truthy(new_hash) THEN "file_added"
                   ELSE IF old_hash # new_hash /\ Truthy(new_hash) THEN "file_modified"
                   ELSE "none"
       IN  /\ tloc' = [tloc EXCEPT ![t].old_hash = old_hash, ![t].kind = kind]
           /\ tpc' = [tpc EXCEPT ![t] = IF kind = "none" THEN "idle" ELSE "put"]
    /\ UNCHANGED <<disk, changes, csv, db, pc, file_hashes, queue, lock, conc_calls,
                   concFrame>>

\* Lines 137, 141: self.file_hashes[file_path] = new_hash; lines 126-127 for
\* an event of type "file_deleted".
PutStep(t) ==
    /\ tpc[t] \in {"put", "del"}
    /\ IF tpc[t] = "put"
       THEN /\ file_hashes' = Put(file_hashes, tloc[t].file_path, tloc[t].new_hash)
            /\ tpc' = [tpc EXCEPT ![t] = "save"]
            /\ UNCHANGED tloc
       ELSE IF tloc[t].file_path \in DOMAIN file_hashes
       THEN /\ file_hashes' = Without(file_hashes, {tloc[t].file_path})
            /\ tloc' = [tloc EXCEPT ![t].kind = "deleted"]
            /\ tpc' = [tpc EXCEPT ![t] = "save"]
       ELSE /\ tpc' = [tpc EXCEPT ![t] = "idle"]
            /\ UNCHANGED <<file_hashes, tloc>>
    /\ UNCHANGED <<disk, changes, csv, db, pc, queue, lock, conc_calls, concFrame>>

\* _save_hashes, line 49: with self.lock
SaveAcquire(t) ==
    /\ tpc[t] = "save"
    /\ lock = 0
    /\ lock' = t
    /\ tpc' = [tpc EXCEPT ![t] = "write"]
    /\ UNCHANGED <<disk, changes, csv, db, pc, file_hashes, queue, tloc, conc_calls,
                   concFrame>>

\* _save_hashes leaving the file as it was.
SaveWrite_nowrite(t) ==
    /\ tpc[t] = "write"
    /\ lock = t
    /\ lock' = 0
    /\ tpc' = [tpc EXCEPT ![t] = "callback"]
    /\ UNCHANGED <<disk, changes, csv, db, pc, file_hashes, queue, tloc, conc_calls,
                   concFrame>>

\* _save_hashes, lines 51-54: the file is rewritten from the map as it is
\* now, the lock released, and the write reported by the observer.
SaveWrite(t) ==
    /\ tpc[t] = "write"
    /\ lock = t
    /\ csv' = save_hashes(file_hashes)
    /\ lock' = 0
    /\ queue' = Append(queue, Event("modified", Join(watched_folder, HashFileName), FALSE))
    /\ tpc' = [tpc EXCEPT ![t] = "callback"]
    /\ UNCHANGED <<disk, changes, db, pc, file_hashes, tloc, conc_calls, concFrame>>

\* Lines 129, 139, 143: self.callback(kind, file_path); an exception of the
\* callback ends the thread.
CallbackStep(t) ==
    /\ tpc[t] = "callback"
    /\ LET r == on_file_change(tloc[t].kind, tloc[t].file_path, db, disk, watched_folder)
       IN  /\ conc_calls' = Append(conc_calls, <<tloc[t].kind, tloc[t].file_path>>)
           /\ db' = r.res.db
           /\ tpc' = [tpc EXCEPT ![t] = IF r.res.ok THEN "idle" ELSE "dead"]
    /\ UNCHANGED <<disk, changes, csv, pc, file_hashes, queue, tloc, lock, concFrame>>

NextConc ==
    \/ EnvWriteTwice
    \/ \E t \in Threads : Dispatch(t)
    \/ \E t \in Threads : HashStep(t)
    \/ \E t \in Threads : GetStep(t)
    \/ \E t \in Threads : PutStep(t)
    \/ \E t \in Threads : SaveAcquire(t)
    \/ \E t \in Threads : SaveWrite(t)
    \/ \E t \in Threads : CallbackStep(t)

SpecConc == InitConc /\ [][NextConc]_vars

\* C7 (its consequence for one change that is notified twice): the handler
\* executions are serialized, so that two concurrent notifications for one
\* change of a path cannot both emit an event: the callback has been invoked
\* at most once per change of the folder.
C7_OneEventPerChange == Len(conc_calls) <= changes

\* --------------------------------------------- run, invoked time after time
\* run is invoked on the folder again and again, as Chat.modify_db_path does
\* (a reset, then a full scan) and as every start of the watcher does, the
\* folder changing in between.  call remembers of the invocations before:
\* again tells that this is a full scan following a full scan of the same
\* folder contents; orig_disk and orig_ids are the folder contents and the
\* ids of the index after the full scan that last built the index from
\* empty; rebuilt tells that this is a full scan following a reset, of the
\* folder contents of that original scan.
RunSeq ==
    \E scan_type \in ScanTypes :
        \E data_path \in DataPaths(scan_type) :
            LET r == run(db, disk, data_path, scan_type)
                again == /\ scan_type = "full" /\ r.ok
                         /\ call.scan_type = "full" /\ call.ok
                         /\ call.disk = disk
                rebuilt == /\ scan_type = "full" /\ r.ok
                           /\ call.scan_type = "reset" /\ call.ok
                           /\ call.orig_set /\ call.orig_disk = disk
                original == scan_type = "full" /\ r.ok /\ db = {} /\ ~rebuilt
            IN  /\ (scan_type \in {"modify", "remove"} => data_path.dir = watched_folder)
                /\ db' = r.db
                /\ call' = [RunRecord(scan_type, data_path, db, disk, r) EXCEPT
                               !.again = again,
                               !.rebuilt = rebuilt,
                               !.orig_set = (original \/ call.orig_set),
                               !.orig_disk = IF original THEN disk ELSE call.orig_disk,
                               !.orig_ids = IF original THEN Ids(r.db) ELSE call.orig_ids]
                /\ UNCHANGED <<watched_folder, envVars, csv, watcherVars, threadVars, loop>>

NextSeq ==
    \/ EnvWrite
    \/ EnvDelete
    \/ RunSeq

SpecSeq == InitRun /\ [][NextSeq]_vars

\* C11: a full scan that follows a full scan, with the folder contents and
\* the index as the first one left them, passes nothing to add_documents and
\* leaves the index as it was.
C11_FullIdempotent ==
    call.again => (call.added = <<>> /\ db = call.before)

\* The second of two full scans of a folder that holds indexed files.
C11_Witness == call.again /\ db # {} /\ call.pass # <<>>

D_MD == <<"d", ".md">>
E_DOCX == <<"e", ".docx">>

\* The file names of the folder: two that load_folder loads in one loop, or
\* one for each of its loops, or one that only load_document has a loader for.
FailWorlds == {{A_TXT, D_MD}, {A_TXT, C_PDF}, {A_TXT, E_DOCX}}

InitFail ==
    /\ watched_folder \in {RelFolder, AbsFolder}
    /\ \E w \in FailWorlds : disk \in [w -> DiskValues]
    /\ csv = NoCsv
    /\ db = {}
    /\ pc = "down"
    /\ starts = 0
    /\ changes = 0
    /\ is_initializing = FALSE
    /\ file_hashes = EmptyMap
    /\ existing_hashes = EmptyMap
    /\ listing = {}
    /\ current_hashes = EmptyMap
    /\ init_calls = <<>>
    /\ queue = <<>>
    /\ last = NoLast
    /\ raced = FALSE
    /\ call = NoCall
    /\ tpc = [t \in Threads |-> "idle"]
    /\ tloc = [t \in Threads |-> NoLocals]
    /\ lock = 0
    /\ conc_calls = <<>>
    /\ loop = NoLoop

RunFailing ==
    \E scan_type \in ScanTypes :
        \E data_path \in DataPaths(scan_type) :
            \E fail_at \in FailPoints :
                LET r == run_at(db, disk, data_path, scan_type, fail_at)
                IN  /\ db' = r.db
                    /\ call' = RunRecord(scan_type, data_path, db, disk, r)
                    /\ UNCHANGED <<watched_folder, envVars, csv, watcherVars, threadVars, loop>>

NextFail == RunFailing

SpecFail == InitFail /\ [][NextFail]_vars

\* The files of a folder that load_folder has a loader for.
Loadable(b) == EndsWithExt(b, ".pdf") \/ \E e \in TextExts : EndsWithExt(b, e)

\* The extensions load_document has a loader for.
SupportedExts == {".txt", ".md", ".docx", ".pptx", ".pdf"}
Supported(b) == \E e \in SupportedExts : EndsWithExt(b, e)

\* C17: a full scan does not raise for a file that fails to load, and indexes
\* every other loadable file of the folder; a modify of a document that
\* fails to load or has an extension load_document does not know raises and
\* leaves the index as it was; a store operation that raises makes run raise,
\* whatever the scan type.
C17_ErrorPolicy ==
    /\ (call.scan_type = "full" /\ ~call.failed) =>
        /\ call.ok
        /\ \A b \in DOMAIN call.disk :
            (Loadable(b) /\ call.disk[b].st = "file") =>
                \E e \in db : e.source = Join(call.data_path.dir, b)
    /\ (call.scan_type = "modify"
            /\ (~Supported(call.data_path.base)
                \/ Read(call.disk, call.data_path).st # "file")) =>
        (~call.ok /\ db = call.before)
    /\ call.failed => ~call.ok

\* A full scan of a folder holding an unreadable text file and a readable one.
C17_Witness ==
    /\ call.scan_type = "full"
    /\ call.ok
    /\ D_MD \in DOMAIN call.disk
    /\ call.disk[A_TXT] = Locked
    /\ call.disk[D_MD].st = "file"
    /\ \E e \in db : e.source = Join(call.data_path.dir, D_MD)

\* ------------------------------------------- calculate_chunk_ids, its loop
\* calculate_chunk_ids is applied to a list of chunks of any sources and
\* pages, in any order, one iteration of its loop at a time.
DOC_PDF == <<"doc", ".pdf">>

\* The chunks a list is made of: chunks of a text file (no page) and of the
\* pages of two PDF files.
ChunkKinds ==
    {[source |-> Join(RelFolder, A_TXT), page |-> NoPage, text |-> <<1, 1>>]}
        \cup {[source |-> Join(RelFolder, b), page |-> p, text |-> <<1, 1>>] :
                b \in {DOC_PDF, C_PDF}, p \in 0..MaxPage}

ChunkLists == UNION {[1..n -> ChunkKinds] : n \in 0..MaxChunks}

InitIds ==
    /\ watched_folder = RelFolder
    /\ disk = NoDisk
    /\ csv = NoCsv
    /\ db = {}
    /\ pc = "down"
    /\ starts = 0
    /\ changes = 0
    /\ is_initializing = FALSE
    /\ file_hashes = EmptyMap
    /\ existing_hashes = EmptyMap
    /\ listing = {}
    /\ current_hashes = EmptyMap
    /\ init_calls = <<>>
    /\ queue = <<>>
    /\ last = NoLast
    /\ raced = FALSE
    /\ call = NoCall
    /\ tpc = [t \in Threads |-> "idle"]
    /\ tloc = [t \in Threads |-> NoLocals]
    /\ lock = 0
    /\ conc_calls = <<>>
    /\ \E chunks \in ChunkLists : loop = [NoLoop EXCEPT !.chunks = chunks]

\* One iteration of the for loop of calculate_chunk_ids.
IdStep ==
    /\ loop.done < Len(loop.chunks)
    /\ LET chunk == loop.chunks[loop.done + 1]
           current_page_id == PageId(chunk.source, chunk.page)
           current_chunk_index ==
               next_chunk_index(loop.last_page_id, current_page_id,
                                loop.current_chunk_index)
       IN  loop' = [loop EXCEPT
                       !.done = @ + 1,
                       !.current_chunk_index = current_chunk_index,
                       !.last_page_id = current_page_id,
                       !.out = Append(@, [source |-> chunk.source,
                                          page |-> chunk.page,
                                          idx |-> current_chunk_index])]
    /\ UNCHANGED <<watched_folder, envVars, csv, db, watcherVars, call, threadVars>>

NextIds == IdStep

SpecIds == InitIds /\ [][NextIds]_vars

\* Three chunks on page 0 and two on page 1 of doc.pdf.
ExamplePages == <<0, 0, 0, 1, 1>>
ExampleIndexes == <<0, 1, 2, 0, 1>>

IsExample(chunks) ==
    /\ Len(chunks) = Len(ExamplePages)
    /\ \A i \in 1..Len(chunks) :
        chunks[i].source = Join(RelFolder, DOC_PDF) /\ chunks[i].page = ExamplePages[i]

\* C14: the id of a chunk is its source, its page and a local index; the
\* local index is 0 for the first chunk and for a chunk whose (source, page)
\* differs from the chunk before it, and one more than the index of the chunk
\* before it otherwise.  doc.pdf with 3 chunks on page 0 and 2 on page 1 gets
\* the indexes 0, 1, 2, 0, 1.
C14_ChunkIdRule ==
    /\ \A i \in 1..loop.done :
        /\ loop.out[i].source = loop.chunks[i].source
        /\ loop.out[i].page = loop.chunks[i].page
        /\ loop.out[i].idx =
            IF i = 1 \/ loop.chunks[i].source # loop.chunks[i - 1].source
                     \/ loop.chunks[i].page # loop.chunks[i - 1].page
            THEN 0
            ELSE loop.out[i - 1].idx + 1
    /\ loop.done = Len(loop.chunks) =>
        /\ IdSeq(calculate_chunk_ids(loop.chunks)) = loop.out
        /\ IsExample(loop.chunks) =>
            \A i \in 1..loop.done : loop.out[i].idx = ExampleIndexes[i]

\* The loop is through the five chunks of the example.
C14_Witness == IsExample(loop.chunks) /\ loop.done = Len(loop.chunks)

\* ------------------------------------- the observer thread and its owner
\* Chat.start_watch past observer.start(): the observer's one thread
\* dispatches notifications to the handler, statement by statement, while the
\* owner sleeps in its loop until it is cancelled; then it calls
\* observer.stop() and observer.join().  pc is "watching" in the loop,
\* "cancelled" once CancelledError is raised in the owner, "stopping" after
\* observer.stop() and "down" after observer.join().
ObserverThread == 1

WatchWorlds == {{A_TXT, B_PNG}}

InitWatch ==
    /\ watched_folder \in {RelFolder, AbsFolder}
    /\ \E w \in WatchWorlds : disk = [b \in w |-> Absent]
    /\ csv = save_hashes(EmptyMap)
    /\ db = {}
    /\ pc = "watching"
    /\ starts = 1
    /\ changes = 0
    /\ is_initializing = FALSE
    /\ file_hashes = EmptyMap
    /\ existing_hashes = EmptyMap
    /\ listing = {}
    /\ current_hashes = EmptyMap
    /\ init_calls = <<>>
    /\ queue = <<>>
    /\ last = NoLast
    /\ raced = FALSE
    /\ call = NoCall
    /\ tpc = [t \in Threads |-> "idle"]
    /\ tloc = [t \in Threads |-> NoLocals]
    /\ lock = 0
    /\ conc_calls = <<>>
    /\ loop = NoLoop

ownerFrame == <<watched_folder, envVars, csv, db, starts, is_initializing,
                file_hashes, initVars, queue, last, otherVars>>

\* The folder changes while the subscription exists.
WatchedWrite == pc # "down" /\ EnvWriteTwice

\* The observer thread takes the next notification, unless it was stopped.
ObserverDispatch == pc \in {"watching", "cancelled"} /\ Dispatch(ObserverThread)

\* The statements of the handler the observer thread is in.
ObserverStep ==
    \/ HashStep(ObserverThread)
    \/ GetStep(ObserverThread)
    \/ PutStep(ObserverThread)
    \/ SaveAcquire(ObserverThread)
    \/ SaveWrite(ObserverThread)
    \/ CallbackStep(ObserverThread)

\* The task of start_watch is cancelled: CancelledError at the await.
Cancel ==
    /\ pc = "watching"
    /\ pc' = "cancelled"
    /\ UNCHANGED ownerFrame

\* observer.stop()
ObserverStop ==
    /\ pc = "cancelled"
    /\ pc' = "stopping"
    /\ UNCHANGED ownerFrame

\* observer.join() returning at once.
ObserverJoin_nowait ==
    /\ pc = "stopping"
    /\ pc' = "down"
    /\ UNCHANGED ownerFrame

\* observer.join(): returns when the observer thread has ended, which it
\* does after the handler it is in, or had when its callback raised.
ObserverJoin ==
    /\ pc = "stopping"
    /\ tpc[ObserverThread] \in {"idle", "dead"}
    /\ pc' = "down"
    /\ UNCHANGED ownerFrame

NextWatch ==
    \/ WatchedWrite
    \/ ObserverDispatch
    \/ ObserverStep
    \/ Cancel
    \/ ObserverStop
    \/ ObserverJoin

\* The handler's own steps up to the point where it calls the callback.
ObserverHandling ==
    \/ HashStep(ObserverThread)
    \/ GetStep(ObserverThread)
    \/ PutStep(ObserverThread)
    \/ SaveAcquire(ObserverThread)
    \/ SaveWrite(ObserverThread)

\* The observer thread and the owner's task are scheduled: each keeps taking
\* its steps.  The callback is a finite computation, so a thread inside it
\* leaves it: CallbackStep is enabled exactly when the thread is at
\* "callback" and always changes conc_calls, hence the last conjunct is
\* WF_vars(CallbackStep(ObserverThread)) written over states.
SpecWatch ==
    /\ InitWatch
    /\ [][NextWatch]_vars
    /\ WF_vars(ObserverHandling)
    /\ WF_vars(ObserverStop)
    /\ WF_vars(ObserverJoin)
    /\ []<>(tpc[ObserverThread] # "callback")

\* C21: after the stop signal the subscription is eventually torn down; it
\* is torn down only when the handler in flight has returned, only after a
\* stop signal, and no callback is invoked afterwards.
C21_CooperativeStop ==
    /\ (pc = "cancelled") ~> (pc = "down")
    /\ [](pc = "down" => tpc[ObserverThread] \in {"idle", "dead"})
    /\ [][pc = "down" => (pc' = "down" /\ conc_calls' = conc_calls)]_vars
    /\ [][(pc = "watching" /\ pc' # "watching") => pc' = "cancelled"]_vars

\* The stop signal has come while a callback is in flight.
C21_Witness == pc = "stopping" /\ tpc[ObserverThread] = "callback"

\* C22: after a full scan of the folder on an empty index, the sources in the
\* index are exactly the files of the folder that have an extension
\* load_document supports (.txt, .md, .docx, .pptx, .pdf) and load without
\* error.
C22_FullLoadsSupported ==
    (call.scan_type = "full" /\ call.ok /\ call.before = {}) =>
        {e.source : e \in db} =
            {Join(call.data_path.dir, b) : b \in
                {x \in DOMAIN call.disk :
                    Supported(x) /\ call.disk[x].st = "file"}}

\* A path the detector is to ignore as noise: a '.tmp' suffix or a file name
\* starting with '~$'.
Noise(p) == EndsWithExt(p.base, ".tmp") \/ StartsWithLockPrefix(p.base)

\* C23: no path ending in '.tmp' or named '~$...' is a key of the hash map,
\* and the callback is invoked for no such path, by a runtime notification or
\* by the startup walk.
C23_NoiseFiltered ==
    /\ \A p \in DOMAIN file_hashes : ~Noise(p)
    /\ \A i \in 1..Len(init_calls) : ~Noise(init_calls[i][2])
    /\ \A i \in 1..Len(last.calls) : ~Noise(last.calls[i][2])

\* C24: a change made while startup reconciliation is in progress is not
\* lost: once the watcher is subscribed and has nothing left to dispatch, the
\* hash map holds, for every readable file of the folder that is not
\* filtered, the hash of its present content.
C24_NoChangeLostAtStartup ==
    (pc = "watching" /\ queue = <<>>) =>
        \A b \in DOMAIN disk :
            (disk[b].st = "file" /\ ~Filtered(DetectorPath(b))) =>
                Get(file_hashes, DetectorPath(b)) = compute_file_hash(disk[b])

\* C25: for every hash map the detector holds, _load_hashes applied to the
\* file _save_hashes writes for it returns the same mapping of paths to
\* hashes.
C25_HashStoreRoundTrip ==
    load_hashes(save_hashes(file_hashes)) = file_hashes

C27_PathAgreement ==
    \A e \in db : e.source = DetectorPath(e.source.base)

====
